---- MODULE Spec2Model ----
(***************************************************************************)
(* Brick-Station: a 6502-class emulator with a bus of address-routed       *)
(* devices and a debugger that steps the processor one clock cycle at a    *)
(* time and rolls back through a stack of machine snapshots.               *)
(*                                                                         *)
(* The machine is a graph of reference-counted cells (Rc<RefCell<..>>):    *)
(* the model keeps one heap per cell type, indexed by cell identity, so    *)
(* that sharing and rewiring of references is part of the state.           *)
(***************************************************************************)
EXTENDS Integers, Sequences, FiniteSets, TLC

(***************************************************************************)
(* Bounds of the model.                                                    *)
(***************************************************************************)
MaxHistory == 3   \* Step is not taken beyond this depth of the history stack
MaxLoads == 2     \* program loads per behaviour
MaxDevices == 3   \* devices attached to one bus
MaxSessionHistory == 1  \* depth of the history stack in a session with direct ticks

(***************************************************************************)
(* Program constants.                                                      *)
(***************************************************************************)
NoRef == -1            \* Option::None of a reference
AddrSpace == 65536     \* [u8; 0xFFFF + 1]
LoadOrigin == 32768    \* 0x8000
ResetVector == 65532   \* 0xFFFC

\* The inputs the environment may supply.
ProgLda == <<169, 5>>                  \* LDA #$05
ProgSta == <<169, 171, 141, 0, 2>>     \* LDA #$AB ; STA $0200
ProgLdaX == <<162, 1, 189, 255, 128>>  \* LDX #$01 ; LDA $80FF,X
ProgStaX == <<162, 1, 157, 255, 1>>    \* LDX #$01 ; STA $01FF,X
Programs == {ProgLda, ProgSta, ProgLdaX, ProgStaX}
\* Images for a processor that is ticked without the debugger's gate.
ProgLoop == <<162, 1, 189, 255, 128, 76, 0, 128>>  \* LDX #$01 ; LDA $80FF,X ; JMP $8000
ProgStaLoop == <<169, 171, 141, 0, 2, 76, 0, 128>> \* LDA #$AB ; STA $0200 ; JMP $8000
ProgBad == <<169, 5, 2>>                           \* LDA #$05 ; 02 (no catalog entry)
Images == {ProgLoop, ProgStaLoop, ProgBad}
WriteAddrs == {0, 512, 65535}          \* 0x0000, 0x0200, 0xFFFF
WriteVals == {0, 5, 171}               \* 0x00, 0x05, 0xAB
\* Devices that may be attached to a bus besides RAM: [lo, hi] address ranges.
DeviceRanges == {<<0, 511>>, <<512, 65535>>}
BusAddrs == {256, 512}                 \* 0x0100, 0x0200
BusVals == {171}                       \* 0xAB

(***************************************************************************)
(* RAM (ram.rs).  Ram.data is the total array [0..0xFFFF -> u8]; it is     *)
(* represented by the set of its non-zero cells <<address, byte>>.         *)
(***************************************************************************)
RamNew == {}

MemRead(data, addr) ==
    IF \E c \in data : c[1] = addr
    THEN (CHOOSE c \in data : c[1] = addr)[2]
    ELSE 0

\* A store that lands one cell too high.
MemWriteOffByOne(data, addr, value) ==
    {c \in data : c[1] # (addr + 1) % AddrSpace}
        \cup (IF value = 0 THEN {} ELSE {<<(addr + 1) % AddrSpace, value>>})

MemWrite(data, addr, value) ==
    {c \in data : c[1] # addr} \cup (IF value = 0 THEN {} ELSE {<<addr, value>>})

\* A device is [kind, lo, hi, data].  Ram claims every address.
NewRam == [kind |-> "ram", lo |-> 0, hi |-> AddrSpace - 1, data |-> RamNew]
NewRangeDevice(lo, hi) == [kind |-> "range", lo |-> lo, hi |-> hi, data |-> RamNew]

WithinRange(dev, addr) ==
    IF dev.kind = "ram" THEN TRUE ELSE dev.lo <= addr /\ addr <= dev.hi

DevRead(dev, addr) == MemRead(dev.data, addr)

DevWrite(dev, addr, value) == [dev EXCEPT !.data = MemWrite(dev.data, addr, value)]

(***************************************************************************)
(* The heap: [cpus, buses, devs], each a function from cell identities.    *)
(***************************************************************************)
RECURSIVE FreshFrom(_, _)
FreshFrom(used, n) == IF n \in used THEN FreshFrom(used, n + 1) ELSE n
Fresh(used) == FreshFrom(used, 0)

Extend(f, k, v) == [x \in DOMAIN f \cup {k} |-> IF x = k THEN v ELSE f[x]]
Restrict(f, S) == [x \in S |-> f[x]]

(***************************************************************************)
(* Bus (bus.rs).                                                           *)
(***************************************************************************)
BusNew == [processor |-> NoRef, devices |-> <<>>]

\* The devices of bus b that claim addr, in registration order.
Claiming(H, b, addr) ==
    SelectSeq(H.buses[b].devices, LAMBDA d : WithinRange(H.devs[d], addr))

\* A read served by the last claiming device instead of the first.
BusReadLast(H, b, addr) ==
    LET m == Claiming(H, b, addr)
    IN  IF m = <<>> THEN [ok |-> FALSE, value |-> 0]
        ELSE [ok |-> TRUE, value |-> DevRead(H.devs[m[Len(m)]], addr)]

\* A read that answers 0 when no device claims the address.
BusReadOrZero(H, b, addr) ==
    LET m == Claiming(H, b, addr)
    IN  IF m = <<>> THEN [ok |-> TRUE, value |-> 0]
        ELSE [ok |-> TRUE, value |-> DevRead(H.devs[m[1]], addr)]

\* Bus::read: [ok, value]; ok is FALSE when .nth(0).unwrap() panics.
BusRead(H, b, addr) ==
    LET m == Claiming(H, b, addr)
    IN  IF m = <<>> THEN [ok |-> FALSE, value |-> 0]
        ELSE [ok |-> TRUE, value |-> DevRead(H.devs[m[1]], addr)]

\* A write delivered to the first claiming device only.
BusWriteFirst(H, b, addr, value) ==
    LET m == Claiming(H, b, addr)
    IN  IF m = <<>> THEN H
        ELSE [H EXCEPT !.devs[m[1]] = DevWrite(@, addr, value)]

\* Bus::write: every claiming device stores the value.
BusWrite(H, b, addr, value) ==
    LET m == Claiming(H, b, addr)
        hit == {m[i] : i \in 1..Len(m)}
    IN  [H EXCEPT !.devs = [d \in DOMAIN H.devs |->
            IF d \in hit THEN DevWrite(H.devs[d], addr, value) ELSE H.devs[d]]]

\* Bus::add_device: pushes and returns the new length.
BusAddDevice(H, b, d) ==
    [heap |-> [H EXCEPT !.buses[b].devices = Append(@, d)],
     ret |-> Len(H.buses[b].devices) + 1]

RemoveAt(s, at) == [i \in 1..(Len(s) - 1) |-> IF i <= at THEN s[i] ELSE s[i + 1]]

\* Bus::remove_device: `at` is a 0-based Vec index.
BusRemoveDevice(H, b, at) ==
    IF at >= Len(H.buses[b].devices) THEN H
    ELSE [H EXCEPT !.buses[b].devices = RemoveAt(@, at)]

(***************************************************************************)
(* Processor.  Its state is {registers, flags, cycle, opcode, bus}; the    *)
(* catalog, the addressing modes and the operations are those of the       *)
(* instruction-set design (sections 4.1 to 4.3), for the opcodes the       *)
(* input programs use.                                                     *)
(***************************************************************************)
CpuNew ==
    [a |-> 0, x |-> 0, y |-> 0, pc |-> 0, sp |-> 0, status |-> {},
     cycle |-> 0, opcode |-> 0, bus |-> NoRef]

\* Opcode -> descriptor {mnemonic, addressing mode, base cycle count}.
InstructionSet ==
    (169 :> [mn |-> "LDA", mode |-> "IMM", cycles |-> 2]) @@
    (162 :> [mn |-> "LDX", mode |-> "IMM", cycles |-> 2]) @@
    (141 :> [mn |-> "STA", mode |-> "ABS", cycles |-> 4]) @@
    (189 :> [mn |-> "LDA", mode |-> "ABX", cycles |-> 4]) @@
    (157 :> [mn |-> "STA", mode |-> "ABX", cycles |-> 5]) @@
    (76  :> [mn |-> "JMP", mode |-> "ABS", cycles |-> 3])

OperandWidth(mode) == IF mode = "IMM" THEN 1 ELSE 2

\* Cpu::read / Cpu::write go through the processor's own bus reference.
CpuRead(H, c, addr) ==
    IF H.cpus[c].bus = NoRef THEN [ok |-> FALSE, value |-> 0]
    ELSE BusRead(H, H.cpus[c].bus, addr)

CpuWrite(H, c, addr, value) ==
    IF H.cpus[c].bus = NoRef THEN H ELSE BusWrite(H, H.cpus[c].bus, addr, value)

PcAdd(pc, n) == (pc + n) % AddrSpace

SetZN(status, v) ==
    (status \ {"Z", "N"})
        \cup (IF v = 0 THEN {"Z"} ELSE {})
        \cup (IF v >= 128 THEN {"N"} ELSE {})

\* address_mode.handle: consumes the operand bytes at pc and yields the
\* effective address and the "page boundary crossed" signal.
AddressMode(H, c, mode) ==
    LET cpu == H.cpus[c]
        lo == CpuRead(H, c, cpu.pc)
        hi == CpuRead(H, c, PcAdd(cpu.pc, 1))
        base == hi.value * 256 + lo.value
    IN  CASE mode = "IMM" ->
               [ok |-> TRUE, pc |-> PcAdd(cpu.pc, 1), addr |-> cpu.pc, extra |-> FALSE]
          [] mode = "ABS" ->
               [ok |-> lo.ok /\ hi.ok, pc |-> PcAdd(cpu.pc, 2), addr |-> base,
                extra |-> FALSE]
          [] mode = "ABX" ->
               [ok |-> lo.ok /\ hi.ok, pc |-> PcAdd(cpu.pc, 2),
                addr |-> (base + cpu.x) % AddrSpace,
                extra |-> ((base + cpu.x) % AddrSpace) \div 256 # hi.value]

\* The operation of an instruction on the resolved address: the new heap and
\* the operation's own "extra cycle wanted" signal.
Operation(H, c, mn, addr) ==
    LET cpu == H.cpus[c]
        m == CpuRead(H, c, addr)
    IN  CASE mn = "LDA" ->
               [ok |-> m.ok, extra |-> TRUE, wrote |-> {},
                heap |-> [H EXCEPT !.cpus[c].a = m.value,
                                   !.cpus[c].status = SetZN(@, m.value)]]
          [] mn = "LDX" ->
               [ok |-> m.ok, extra |-> TRUE, wrote |-> {},
                heap |-> [H EXCEPT !.cpus[c].x = m.value,
                                   !.cpus[c].status = SetZN(@, m.value)]]
          [] mn = "STA" ->
               [ok |-> cpu.bus # NoRef, extra |-> FALSE, wrote |-> {<<addr, cpu.a>>},
                heap |-> CpuWrite(H, c, addr, cpu.a)]
          [] mn = "JMP" ->
               [ok |-> TRUE, extra |-> FALSE, wrote |-> {},
                heap |-> [H EXCEPT !.cpus[c].pc = addr]]

ExtraCycleOr(s1, s2) == IF s1 \/ s2 THEN 1 ELSE 0

\* (additional_cycles1 && additional_cycles2) as i32
ExtraCycle(s1, s2) == IF s1 /\ s2 THEN 1 ELSE 0

\* Variants of the tick body: a draining tick takes dec cycles and moves PC by
\* adv, a fetching tick takes fdec cycles.
TickVariant(H, c, dec, adv, fdec) ==
    LET cpu == H.cpus[c]
        none == [ok |-> FALSE, heap |-> H, fetched |-> FALSE, s1 |-> FALSE,
                 s2 |-> FALSE, wrote |-> {}]
    IN  IF cpu.cycle = 0
        THEN LET op == CpuRead(H, c, cpu.pc)
                 H1 == [H EXCEPT !.cpus[c].opcode = op.value,
                                 !.cpus[c].pc = PcAdd(cpu.pc, 1)]
             IN  IF ~op.ok THEN none
                 ELSE IF op.value \notin DOMAIN InstructionSet
                 THEN [none EXCEPT !.heap = H1]
                 ELSE
                   LET ins == InstructionSet[op.value]
                       H2 == [H1 EXCEPT !.cpus[c].cycle = ins.cycles]
                       am == AddressMode(H2, c, ins.mode)
                       H3 == [H2 EXCEPT !.cpus[c].pc = am.pc]
                       o  == Operation(H3, c, ins.mn, am.addr)
                       H4 == [o.heap EXCEPT !.cpus[c].cycle =
                                 @ + ExtraCycle(am.extra, o.extra)]
                   IN  IF ~(am.ok /\ o.ok) THEN [none EXCEPT !.heap = H2]
                       ELSE [ok |-> TRUE, fetched |-> TRUE, s1 |-> am.extra,
                             s2 |-> o.extra, wrote |-> o.wrote,
                             heap |-> [H4 EXCEPT !.cpus[c].cycle = @ - fdec]]
        ELSE [ok |-> TRUE, fetched |-> FALSE, s1 |-> FALSE, s2 |-> FALSE,
              wrote |-> {},
              heap |-> [H EXCEPT !.cpus[c].cycle = @ - dec,
                                 !.cpus[c].pc = PcAdd(@, adv)]]

TickProcessorDrainAdvances(H, c) == TickVariant(H, c, 1, 1, 1)
TickProcessorDrainTwo(H, c) == TickVariant(H, c, 2, 0, 1)
TickProcessorFetchFree(H, c) == TickVariant(H, c, 1, 0, 0)

\* The body of tick for processor c: [ok, heap, fetched, s1, s2, wrote].  ok
\* is FALSE when the call panics; heap is then the state reached at the panic.
\* s1 and s2 are the two extra-cycle signals of a fetching tick and wrote the
\* bus writes the operation issued.
TickProcessor(H, c) ==
    LET cpu == H.cpus[c]
        none == [ok |-> FALSE, heap |-> H, fetched |-> FALSE, s1 |-> FALSE,
                 s2 |-> FALSE, wrote |-> {}]
    IN  IF cpu.cycle = 0
        THEN LET op == CpuRead(H, c, cpu.pc)
                 H1 == [H EXCEPT !.cpus[c].opcode = op.value,
                                 !.cpus[c].pc = PcAdd(cpu.pc, 1)]
             IN  IF ~op.ok THEN none
                 ELSE IF op.value \notin DOMAIN InstructionSet
                 THEN [none EXCEPT !.heap = H1]
                 ELSE
                   LET ins == InstructionSet[op.value]
                       H2 == [H1 EXCEPT !.cpus[c].cycle = ins.cycles]
                       am == AddressMode(H2, c, ins.mode)
                       H3 == [H2 EXCEPT !.cpus[c].pc = am.pc]
                       o  == Operation(H3, c, ins.mn, am.addr)
                       H4 == [o.heap EXCEPT !.cpus[c].cycle =
                                 @ + ExtraCycle(am.extra, o.extra)]
                   IN  IF ~(am.ok /\ o.ok) THEN [none EXCEPT !.heap = H2]
                       ELSE [ok |-> TRUE, fetched |-> TRUE, s1 |-> am.extra,
                             s2 |-> o.extra, wrote |-> o.wrote,
                             heap |-> [H4 EXCEPT !.cpus[c].cycle = @ - 1]]
        ELSE [ok |-> TRUE, fetched |-> FALSE, s1 |-> FALSE, s2 |-> FALSE,
              wrote |-> {},
              heap |-> [H EXCEPT !.cpus[c].cycle = @ - 1]]

\* Bus::tick: ticks the processor the bus refers to; unwrap() of None panics.
BusTick(H, b) ==
    IF H.buses[b].processor = NoRef
    THEN [ok |-> FALSE, heap |-> H, fetched |-> FALSE, s1 |-> FALSE, s2 |-> FALSE,
          wrote |-> {}]
    ELSE TickProcessor(H, H.buses[b].processor)

\* Cpu::tick, the processor's own entry point to the same cycle.
CpuTick(H, c) == TickProcessor(H, c)

\* Cpu::reset: PC from the little-endian vector, registers cleared, cycle 0.
CpuReset(H, c) ==
    LET lo == CpuRead(H, c, ResetVector)
        hi == CpuRead(H, c, ResetVector + 1)
    IN  [ok |-> lo.ok /\ hi.ok,
         heap |-> [H EXCEPT !.cpus[c] =
            [CpuNew EXCEPT !.pc = hi.value * 256 + lo.value, !.bus = H.cpus[c].bus]]]

(***************************************************************************)
(* Disassembler: one line per decoded instruction and the map from the     *)
(* program-counter value at which a line starts to the line's index.  The  *)
(* handlers look the processor's PC up in this map, so its keys are        *)
(* addresses: the static decode counts from the load origin, where the     *)
(* bytes it walks are written.  Decoding stops at the end of the buffer,   *)
(* before a final instruction whose operand bytes are missing.             *)
(***************************************************************************)
DisassemblerNew == [program |-> <<>>, counters |-> {}]

RECURSIVE Decode(_, _, _)
Decode(bytes, pos, acc) ==
    IF pos > Len(bytes) THEN acc
    ELSE IF bytes[pos] \notin DOMAIN InstructionSet THEN acc
    ELSE LET ins == InstructionSet[bytes[pos]]
             w == OperandWidth(ins.mode)
         IN  IF pos + w > Len(bytes) THEN acc
             ELSE Decode(bytes, pos + 1 + w,
                    [program |-> Append(acc.program,
                        <<ins.mn, ins.mode, SubSeq(bytes, pos + 1, pos + w)>>),
                     counters |-> acc.counters \cup
                        {<<LoadOrigin + pos - 1, Len(acc.program)>>}])

Disassemble(bytes) == Decode(bytes, 1, DisassemblerNew)

CountersContain(dis, pc) == \E e \in dis.counters : e[1] = pc

(***************************************************************************)
(* Machine state (debugger.rs): State {bus, cpu, dis} holds references     *)
(* into the heap.                                                          *)
(***************************************************************************)
\* Cpu::clone: a field-wise copy; the copy holds the same bus handle.
CpuClone(cpu) == cpu

RECURSIVE CloneDevices(_, _, _)
\* Copies the devices ds one by one into fresh cells: [heap, devices].
CloneDevices(H, ds, acc) ==
    IF ds = <<>> THEN [heap |-> H, devices |-> acc]
    ELSE LET d == Fresh(DOMAIN H.devs)
         IN  CloneDevices([H EXCEPT !.devs = Extend(@, d, H.devs[Head(ds)])],
                          Tail(ds), Append(acc, d))

\* Bus::clone_state: a new bus cell whose devices are copies of b's devices.
BusCloneState(H, b) ==
    LET cd == CloneDevices(H, H.buses[b].devices, <<>>)
        nb == Fresh(DOMAIN H.buses)
    IN  [heap |-> [cd.heap EXCEPT !.buses = Extend(@, nb,
                     [processor |-> H.buses[b].processor, devices |-> cd.devices])],
         bus |-> nb]

StateCloneFreshBus(H, st) ==
    LET nc == Fresh(DOMAIN H.cpus)
        nb == Fresh(DOMAIN H.buses)
    IN  [heap |-> [H EXCEPT !.cpus = Extend(@, nc, CpuClone(H.cpus[st.cpu])),
                            !.buses = Extend(@, nb, BusNew)],
         st |-> [bus |-> nb, cpu |-> nc, dis |-> st.dis]]

\* A clone that shares the bus cell with its original instead of copying it.
StateCloneSharedBus(H, st) ==
    LET nc == Fresh(DOMAIN H.cpus)
    IN  [heap |-> [H EXCEPT !.cpus = Extend(@, nc, CpuClone(H.cpus[st.cpu]))],
         st |-> [bus |-> st.bus, cpu |-> nc, dis |-> st.dis]]

\* impl Clone for State.
StateClone(H, st) ==
    LET nc == Fresh(DOMAIN H.cpus)
        H1 == [H EXCEPT !.cpus = Extend(@, nc, CpuClone(H.cpus[st.cpu]))]
        cb == BusCloneState(H1, st.bus)
    IN  [heap |-> cb.heap, st |-> [bus |-> cb.bus, cpu |-> nc, dis |-> st.dis]]

\* The Left/Backspace handler's restore: the live machine becomes a clone of
\* the snapshot, whose processor is then pointed at the clone's bus.
RestoreState(H, snapshot) ==
    LET cl == StateClone(H, snapshot)
    IN  [heap |-> [cl.heap EXCEPT !.cpus[cl.st.cpu].bus = cl.st.bus], st |-> cl.st]

\* The cells reachable from the machine states in roots; everything else has
\* reference count zero and is dropped.
RECURSIVE Closure(_, _, _)
Closure(H, B, C) ==
    LET B1 == B \cup ({H.cpus[c].bus : c \in C} \ {NoRef})
        C1 == C \cup ({H.buses[b].processor : b \in B} \ {NoRef})
    IN  IF B1 = B /\ C1 = C THEN [buses |-> B, cpus |-> C] ELSE Closure(H, B1, C1)

Collect(H, roots) ==
    LET r == Closure(H, {s.bus : s \in roots}, {s.cpu : s \in roots})
        D == UNION {{H.buses[b].devices[i] : i \in 1..Len(H.buses[b].devices)} :
                     b \in r.buses}
    IN  [cpus |-> Restrict(H.cpus, r.cpus), buses |-> Restrict(H.buses, r.buses),
         devs |-> Restrict(H.devs, D)]

Range(s) == {s[i] : i \in 1..Len(s)}

\* An initialization that writes the two bytes of the reset vector swapped.
InitiateStateSwapped ==
    LET H0 == [cpus |-> Extend(<<>>, 0, CpuNew),
               buses |-> Extend(<<>>, 0, BusNew),
               devs |-> Extend(<<>>, 0, NewRam)]
        H1 == BusAddDevice(H0, 0, 0).heap
        H2 == [H1 EXCEPT !.cpus[0].bus = 0]
        H3 == BusWrite(H2, 0, ResetVector, 128)
        H4 == BusWrite(H3, 0, ResetVector + 1, 0)
    IN  [heap |-> CpuReset(H4, 0).heap,
         st |-> [bus |-> 0, cpu |-> 0, dis |-> DisassemblerNew]]

\* An initialization that leaves the high byte of the reset vector unwritten.
InitiateStateNoVector ==
    LET H0 == [cpus |-> Extend(<<>>, 0, CpuNew),
               buses |-> Extend(<<>>, 0, BusNew),
               devs |-> Extend(<<>>, 0, NewRam)]
        H1 == BusAddDevice(H0, 0, 0).heap
        H2 == [H1 EXCEPT !.cpus[0].bus = 0]
        H3 == BusWrite(H2, 0, ResetVector, 0)
    IN  [heap |-> CpuReset(H3, 0).heap,
         st |-> [bus |-> 0, cpu |-> 0, dis |-> DisassemblerNew]]

\* State::initiate_state: [heap, st].
InitiateState ==
    LET H0 == [cpus |-> Extend(<<>>, 0, CpuNew),
               buses |-> Extend(<<>>, 0, BusNew),
               devs |-> Extend(<<>>, 0, NewRam)]
        H1 == BusAddDevice(H0, 0, 0).heap
        H2 == [H1 EXCEPT !.cpus[0].bus = 0]
        H3 == BusWrite(H2, 0, ResetVector, 0)
        H4 == BusWrite(H3, 0, ResetVector + 1, 128)
    IN  [heap |-> CpuReset(H4, 0).heap,
         st |-> [bus |-> 0, cpu |-> 0, dis |-> DisassemblerNew]]

\* What a machine state holds by value: registers, cycle state, the content of
\* every device of its bus, and the disassembly unit.
Registers(cpu) ==
    [a |-> cpu.a, x |-> cpu.x, y |-> cpu.y, pc |-> cpu.pc, sp |-> cpu.sp,
     status |-> cpu.status, cycle |-> cpu.cycle, opcode |-> cpu.opcode]

DeviceContents(H, b) ==
    [i \in 1..Len(H.buses[b].devices) |-> H.devs[H.buses[b].devices[i]]]

View(H, st) ==
    [cpu |-> Registers(H.cpus[st.cpu]), devices |-> DeviceContents(H, st.bus),
     dis |-> st.dis]

(***************************************************************************)
(* The debugger session (App and the key handlers of State::start), and    *)
(* the operations of App and Bus an embedding program may call directly.   *)
(***************************************************************************)
VARIABLES
    heap,      \* the reference-counted cells: [cpus, buses, devs]
    live,      \* app.inner_machine_state
    history,   \* app.previous_machine_state
    fault,     \* "none", or "panic" once an operation has panicked
    lastOp,    \* observer: the operation that produced this state
    ret,       \* observer: the value the last read or add_device returned
    image,     \* observer: the bytes given to the load that led here, else <<>>
    sig,       \* observer: [fetched, s1, s2] of the last tick
    streak,    \* observer: the run of steps and rollbacks in progress
    written,   \* observer: <<address, byte>> last written through the live bus
    loads,     \* observer: number of loads so far
    run,       \* observer: the tick calls issued directly since a fetching one
    undo       \* observer: what each snapshot captured and what a rollback undid

vars ==
    <<heap, live, history, fault, lastOp, ret, image, sig, streak, written, loads, run,
      undo>>

NoSig == [fetched |-> FALSE, s1 |-> FALSE, s2 |-> FALSE]
NoStreak == [n |-> 0, k |-> 0, base |-> <<>>, depth |-> 0]
\* n: tick calls since the last fetching tick, that one included; budget: base
\* cycle count plus extra cycle of the instruction it fetched; prev: the n at
\* which the run before this one ended.  All 0 while no fetch has been seen.
NoRun == [n |-> 0, budget |-> 0, prev |-> 0]
\* views: for each history entry, the view of the live machine when the entry
\* was pushed; since: loads since the history last changed; and, in the state
\* a rollback produced: crossed, the loads it went back across, view, the view
\* recorded for the snapshot it popped, and before, the view it replaced.
NoUndo == [views |-> <<>>, since |-> 0, crossed |-> 0, view |-> <<>>, before |-> <<>>]

UndoAfterLoad(u) ==
    [u EXCEPT !.since = @ + 1, !.crossed = 0, !.view = <<>>, !.before = <<>>]

UndoAfterStep(u, pushed) ==
    [NoUndo EXCEPT !.views = Append(u.views, pushed)]

UndoAfterSkip(u) == [u EXCEPT !.crossed = 0, !.view = <<>>, !.before = <<>>]

\* After a rollback that popped entry i and replaced the view before.
UndoAfterRollback(u, i, before) ==
    [views |-> SubSeq(u.views, 1, i - 1) \o SubSeq(u.views, i + 1, Len(u.views)),
     since |-> 0, crossed |-> u.since, view |-> u.views[i], before |-> before]

Record(w, addr, value) == {c \in w : c[1] # addr} \cup {<<addr, value>>}

RECURSIVE RecordAll(_, _)
RecordAll(w, pairs) ==
    IF pairs = <<>> THEN w
    ELSE RecordAll(Record(w, Head(pairs)[1], Head(pairs)[2]), Tail(pairs))

Roots(l, h) == {l} \cup Range(h)

Init ==
    /\ heap = InitiateState.heap
    /\ live = InitiateState.st
    /\ history = <<>>
    /\ fault = "none"
    /\ lastOp = "init"
    /\ ret = 0
    /\ image = <<>>
    /\ sig = NoSig
    /\ streak = NoStreak
    /\ written = {<<ResetVector, 0>>, <<ResetVector + 1, 128>>}
    /\ loads = 0
    /\ run = NoRun
    /\ undo = NoUndo

\* app.write((0x8000 + i as u16) as u16, *byte) for each byte of the program.
LoadAddress(i) == (LoadOrigin + i) % AddrSpace

\* A loader that starts one address above the origin.
RECURSIVE WriteProgramShifted(_, _, _, _)
WriteProgramShifted(H, b, program, i) ==
    IF i >= Len(program) THEN H
    ELSE WriteProgramShifted(BusWrite(H, b, LoadAddress(i + 1), program[i + 1]),
                             b, program, i + 1)

RECURSIVE WriteProgram(_, _, _, _)
WriteProgram(H, b, program, i) ==
    IF i >= Len(program) THEN H
    ELSE WriteProgram(BusWrite(H, b, LoadAddress(i), program[i + 1]), b, program, i + 1)

\* The body shared by the Enter and Insert handlers once the file is parsed.
LoadProgram(program) ==
    /\ fault = "none"
    /\ loads < MaxLoads
    /\ heap' = WriteProgram(heap, live.bus, program, 0)
    /\ live' = [live EXCEPT !.dis = Disassemble(program)]
    /\ written' = RecordAll(written,
                     [i \in 1..Len(program) |-> <<LoadAddress(i - 1), program[i]>>])
    /\ loads' = loads + 1
    /\ lastOp' = "load"
    /\ ret' = 0
    /\ image' = program
    /\ sig' = NoSig
    /\ streak' = NoStreak
    /\ undo' = UndoAfterLoad(undo)
    /\ UNCHANGED <<history, fault, run>>

\* KeyCode::Enter
Enter == \E program \in Programs : LoadProgram(program)

\* KeyCode::Insert | KeyCode::Char('i')
Insert == \E program \in Programs : LoadProgram(program)

StreakAfterStep(st, before, depth) ==
    IF st.n > 0 /\ st.k = 0 THEN [st EXCEPT !.n = @ + 1]
    ELSE [n |-> 1, k |-> 0, base |-> before, depth |-> depth]

StreakAfterRollback(st) ==
    IF st.k < st.n THEN [st EXCEPT !.k = @ + 1] ELSE NoStreak

\* Step with the snapshot taken after the tick instead of before it.
StepSnapshotAfterTick ==
    LET proceed == CountersContain(live.dis, heap.cpus[live.cpu].pc)
        t == CpuTick(heap, live.cpu)
        snap == StateClone(t.heap, live)
    IN  /\ fault = "none"
        /\ IF proceed
           THEN /\ Len(history) < MaxHistory
                /\ history' = Append(history, snap.st)
                /\ heap' = Collect(snap.heap, Roots(live, history'))
                /\ fault' = IF t.ok THEN "none" ELSE "panic"
                /\ lastOp' = "step"
                /\ sig' = [fetched |-> t.fetched, s1 |-> t.s1, s2 |-> t.s2]
                /\ streak' = StreakAfterStep(streak, View(heap, live), Len(history))
                /\ written' = {c \in written : \A w \in t.wrote : w[1] # c[1]}
                                 \cup t.wrote
                /\ undo' = UndoAfterStep(undo, View(heap, live))
           ELSE /\ history' = history
                /\ heap' = heap
                /\ fault' = fault
                /\ lastOp' = "step_skipped"
                /\ sig' = NoSig
                /\ streak' = NoStreak
                /\ written' = written
                /\ undo' = UndoAfterSkip(undo)
        /\ ret' = 0
        /\ image' = <<>>
        /\ run' = NoRun
        /\ UNCHANGED <<live, loads>>

\* Step without the gate on the disassembly's address map.
StepUngated ==
    LET snap == StateClone(heap, live)
        t == CpuTick(snap.heap, live.cpu)
    IN  /\ fault = "none"
        /\ Len(history) < MaxHistory
        /\ history' = Append(history, snap.st)
        /\ heap' = Collect(t.heap, Roots(live, history'))
        /\ fault' = IF t.ok THEN "none" ELSE "panic"
        /\ lastOp' = "step"
        /\ sig' = [fetched |-> t.fetched, s1 |-> t.s1, s2 |-> t.s2]
        /\ streak' = StreakAfterStep(streak, View(heap, live), Len(history))
        /\ written' = {c \in written : \A w \in t.wrote : w[1] # c[1]} \cup t.wrote
        /\ undo' = UndoAfterStep(undo, View(heap, live))
        /\ ret' = 0
        /\ image' = <<>>
        /\ run' = NoRun
        /\ UNCHANGED <<live, loads>>

\* KeyCode::Right | KeyCode::Tab
Step ==
    LET snap == StateClone(heap, live)
        proceed == CountersContain(live.dis, heap.cpus[live.cpu].pc)
        t == CpuTick(snap.heap, live.cpu)
    IN  /\ fault = "none"
        /\ IF proceed
           THEN /\ Len(history) < MaxHistory
                /\ history' = Append(history, snap.st)
                /\ heap' = Collect(t.heap, Roots(live, history'))
                /\ fault' = IF t.ok THEN "none" ELSE "panic"
                /\ lastOp' = "step"
                /\ sig' = [fetched |-> t.fetched, s1 |-> t.s1, s2 |-> t.s2]
                /\ streak' = StreakAfterStep(streak, View(heap, live), Len(history))
                /\ written' = {c \in written : \A w \in t.wrote : w[1] # c[1]}
                                 \cup t.wrote
                /\ undo' = UndoAfterStep(undo, View(heap, live))
           ELSE /\ history' = history
                /\ heap' = Collect(snap.heap, Roots(live, history))
                /\ fault' = fault
                /\ lastOp' = "step_skipped"
                /\ sig' = NoSig
                /\ streak' = NoStreak
                /\ written' = written
                /\ undo' = UndoAfterSkip(undo)
        /\ ret' = 0
        /\ image' = <<>>
        /\ run' = NoRun
        /\ UNCHANGED <<live, loads>>

RollbackOldest ==
    /\ fault = "none"
    /\ IF history # <<>>
       THEN LET r == RestoreState(heap, history[1])
            IN  /\ live' = r.st
                /\ history' = Tail(history)
                /\ heap' = Collect(r.heap, Roots(live', history'))
                /\ lastOp' = "rollback"
                /\ written' = {}
                /\ streak' = StreakAfterRollback(streak)
                /\ undo' = UndoAfterRollback(undo, 1, View(heap, live))
       ELSE /\ UNCHANGED <<live, history, heap, written>>
            /\ lastOp' = "rollback_empty"
            /\ streak' = NoStreak
            /\ undo' = UndoAfterSkip(undo)
    /\ ret' = 0
    /\ image' = <<>>
    /\ sig' = NoSig
    /\ run' = NoRun
    /\ UNCHANGED <<fault, loads>>

\* KeyCode::Left | KeyCode::Backspace
Rollback ==
    /\ fault = "none"
    /\ IF history # <<>>
       THEN LET r == RestoreState(heap, history[Len(history)])
            IN  /\ live' = r.st
                /\ history' = SubSeq(history, 1, Len(history) - 1)
                /\ heap' = Collect(r.heap, Roots(live', history'))
                /\ lastOp' = "rollback"
                /\ written' = {}
                /\ streak' = StreakAfterRollback(streak)
                /\ undo' = UndoAfterRollback(undo, Len(history), View(heap, live))
       ELSE /\ UNCHANGED <<live, history, heap, written>>
            /\ lastOp' = "rollback_empty"
            /\ streak' = NoStreak
            /\ undo' = UndoAfterSkip(undo)
    /\ ret' = 0
    /\ image' = <<>>
    /\ sig' = NoSig
    /\ run' = NoRun
    /\ UNCHANGED <<fault, loads>>

Next == Enter \/ Insert \/ Step \/ Rollback

Spec == Init /\ [][Next]_vars

(***************************************************************************)
(* App as a device (impl DeviceOps for App): reads and writes passed       *)
(* through to the bus of the live machine.                                 *)
(***************************************************************************)
\* App::write
AppWrite ==
    \E addr \in WriteAddrs, value \in WriteVals :
        /\ fault = "none"
        /\ heap' = BusWrite(heap, live.bus, addr, value)
        /\ written' = Record(written, addr, value)
        /\ lastOp' = "write"
        /\ ret' = 0
        /\ image' = <<>>
        /\ UNCHANGED <<live, history, fault, sig, streak, loads, run, undo>>

\* App::read
AppRead ==
    \E addr \in WriteAddrs \cup {ResetVector} :
        LET r == BusRead(heap, live.bus, addr)
        IN  /\ fault = "none"
            /\ fault' = IF r.ok THEN "none" ELSE "panic"
            /\ ret' = r.value
            /\ image' = <<>>
            /\ lastOp' = "read"
            /\ UNCHANGED <<heap, live, history, sig, streak, written, loads, run, undo>>

MemNext == AppWrite \/ AppRead

MemSpec == Init /\ [][MemNext]_vars

(***************************************************************************)
(* The bus of the live machine driven through its own operations:          *)
(* add_device, remove_device, read and write.                              *)
(***************************************************************************)
DeviceKinds == {NewRam} \cup {NewRangeDevice(r[1], r[2]) : r \in DeviceRanges}

\* bus.add_device(Rc::new(RefCell::new(device)))
AddDevice ==
    \E dev \in DeviceKinds :
        LET d == Fresh(DOMAIN heap.devs)
            r == BusAddDevice([heap EXCEPT !.devs = Extend(@, d, dev)], live.bus, d)
        IN  /\ fault = "none"
            /\ Len(heap.buses[live.bus].devices) < MaxDevices
            /\ heap' = r.heap
            /\ ret' = r.ret
            /\ image' = <<>>
            /\ lastOp' = "add_device"
            /\ written' = {}
            /\ UNCHANGED <<live, history, fault, sig, streak, loads, run, undo>>

\* bus.remove_device(at)
RemoveDevice ==
    \E at \in 0..MaxDevices :
        /\ fault = "none"
        /\ heap' = Collect(BusRemoveDevice(heap, live.bus, at), Roots(live, history))
        /\ ret' = 0
        /\ image' = <<>>
        /\ lastOp' = "remove_device"
        /\ written' = {}
        /\ UNCHANGED <<live, history, fault, sig, streak, loads, run, undo>>

\* bus.read(addr)
ReadBus ==
    \E addr \in BusAddrs :
        LET r == BusRead(heap, live.bus, addr)
        IN  /\ fault = "none"
            /\ fault' = IF r.ok THEN "none" ELSE "panic"
            /\ ret' = <<addr, r.value>>
            /\ image' = <<>>
            /\ lastOp' = "bus_read"
            /\ UNCHANGED <<heap, live, history, sig, streak, written, loads, run, undo>>

\* bus.write(addr, value)
WriteBus ==
    \E addr \in BusAddrs, value \in BusVals :
        /\ fault = "none"
        /\ heap' = BusWrite(heap, live.bus, addr, value)
        /\ ret' = <<addr, value>>
        /\ image' = <<>>
        /\ lastOp' = "bus_write"
        /\ written' = Record(written, addr, value)
        /\ UNCHANGED <<live, history, fault, sig, streak, loads, run, undo>>

BusNext == AddDevice \/ RemoveDevice \/ ReadBus \/ WriteBus

BusSpec == Init /\ [][BusNext]_vars

(***************************************************************************)
(* The processor driven directly, without the debugger's gate: images are  *)
(* loaded, the processor is reset, and tick is called on the processor or  *)
(* on the bus, to which the processor may have been connected.             *)
(***************************************************************************)
TickOps == {"tick", "bus_tick"}

\* The run observer after a tick call on processor c with result t.
RunAfterTick(r, t, c) ==
    IF ~t.ok THEN r
    ELSE IF t.fetched
    THEN [n |-> 1,
          budget |-> InstructionSet[t.heap.cpus[c].opcode].cycles
                        + (IF t.s1 /\ t.s2 THEN 1 ELSE 0),
          prev |-> r.n]
    ELSE IF r.n > 0 THEN [r EXCEPT !.n = @ + 1]
    ELSE r

\* A call of tick with result t on processor c, recorded as operation op.
TickCall(t, c, op) ==
    /\ fault = "none"
    /\ heap' = t.heap
    /\ fault' = IF t.ok THEN "none" ELSE "panic"
    /\ lastOp' = op
    /\ sig' = [fetched |-> t.fetched, s1 |-> t.s1, s2 |-> t.s2]
    /\ run' = RunAfterTick(run, t, c)
    /\ written' = {w \in written : \A x \in t.wrote : x[1] # w[1]} \cup t.wrote
    /\ ret' = 0
    /\ image' = <<>>
    /\ streak' = NoStreak
    /\ undo' = UndoAfterSkip(undo)
    /\ UNCHANGED <<live, history, loads>>

\* The Enter handler's load, given an image.
LoadImage == \E program \in Images : LoadProgram(program)

\* cpu.tick()
Tick == TickCall(CpuTick(heap, live.cpu), live.cpu, "tick")

\* bus.tick()
TickBus == TickCall(BusTick(heap, live.bus), heap.buses[live.bus].processor, "bus_tick")

\* bus.connect_processor(cpu)
ConnectProcessor ==
    /\ fault = "none"
    /\ heap.buses[live.bus].processor = NoRef
    /\ heap' = [heap EXCEPT !.buses[live.bus].processor = live.cpu]
    /\ lastOp' = "connect_processor"
    /\ ret' = 0
    /\ image' = <<>>
    /\ UNCHANGED <<live, history, fault, sig, streak, written, loads, run, undo>>

\* cpu.reset()
Reset ==
    LET r == CpuReset(heap, live.cpu)
    IN  /\ fault = "none"
        /\ heap' = r.heap
        /\ fault' = IF r.ok THEN "none" ELSE "panic"
        /\ lastOp' = "reset"
        /\ ret' = 0
        /\ image' = <<>>
        /\ sig' = NoSig
        /\ streak' = NoStreak
        /\ run' = NoRun
        /\ undo' = UndoAfterSkip(undo)
        /\ UNCHANGED <<live, history, written, loads>>

TickNext == LoadImage \/ Tick \/ TickBus \/ ConnectProcessor \/ Reset

\* The caller keeps ticking: weak fairness of Tick, WF_vars(Tick), written out.
\* Tick is enabled exactly when no call has panicked (its only guard), and
\* every Tick step changes the cycle counter, PC or fault.
TickFairness == []<>(fault # "none") \/ []<><<Tick>>_vars

TickSpec == Init /\ [][TickNext]_vars /\ TickFairness

\* A debugger session on images in which the processor is also driven directly.
LoadLoop == LoadProgram(ProgLoop)

SessionStep == Len(history) < MaxSessionHistory /\ Step

SessionNext == LoadLoop \/ Tick \/ Reset \/ SessionStep \/ Rollback

SessionSpec == Init /\ [][SessionNext]_vars

(***************************************************************************)
(* Arithmetic at the top of the address space.  registers.pc += 1 in       *)
(* Bus::tick and 0x8000 + i as u16 in the load loop are plain u16          *)
(* additions: a build with overflow checks (the dev profile) panics when   *)
(* the sum passes 0xFFFF, a build without them (the release profile) wraps *)
(* (PcAdd, LoadAddress).  Which build runs is not fixed by the source, so  *)
(* the operations below take either outcome.                               *)
(***************************************************************************)
\* LDA #$A2; STA $FFFF; STA $0000; JMP $FFFF: plants LDX #$A2 across the top
\* of memory (opcode at 0xFFFF, operand at 0x0000) and jumps to it.
ProgEdge == <<169, 162, 141, 255, 255, 141, 0, 0, 76, 255, 255>>

\* LDA #$05; JMP $FFFF: jumps to 0xFFFF, which holds no instruction.
ProgEdgeBare == <<169, 5, 76, 255, 255>>

EdgeImages == {ProgEdge, ProgEdgeBare}

\* A file one byte longer than the room from the origin to 0xFFFF: LDA #$05,
\* zeros, and a last byte 0xAB at index 0x8000.
ProgLong ==
    [k \in 1..(AddrSpace - LoadOrigin + 1) |->
        IF k = 1 THEN 169 ELSE IF k = 2 THEN 5
        ELSE IF k = AddrSpace - LoadOrigin + 1 THEN 171 ELSE 0]

\* 0x8000 + i as u16 passes 0xFFFF.
LoadAddressOverflows(i) == LoadOrigin + (i % AddrSpace) >= AddrSpace

\* The load loop over the indices lo..hi-1 in index order, from r = [ok, heap,
\* n] (n: bytes written so far); a build with overflow checks panics at the
\* first index whose address overflows and writes nothing from there on.
RECURSIVE WriteProgramRange(_, _, _, _, _, _)
WriteProgramRange(r, b, program, lo, hi, checked) ==
    IF ~r.ok \/ lo >= hi THEN r
    ELSE IF hi = lo + 1
    THEN IF checked /\ LoadAddressOverflows(lo)
         THEN [r EXCEPT !.ok = FALSE]
         ELSE [ok |-> TRUE, n |-> r.n + 1,
               heap |-> BusWrite(r.heap, b, LoadAddress(lo), program[lo + 1])]
    ELSE LET mid == (lo + hi) \div 2
         IN  CHOOSE out \in {WriteProgramRange(half, b, program, mid, hi, checked) :
                    half \in {WriteProgramRange(r, b, program, lo, mid, checked)}} : TRUE

\* The Enter handler given the long file, as the first load of a session; the
\* disassembly unit is replaced only if the loop returns.  No address is
\* written twice (the file is shorter than the address space).
LoadLong ==
    /\ fault = "none"
    /\ loads = 0
    /\ \E checked \in BOOLEAN :
        \E r \in {WriteProgramRange([ok |-> TRUE, heap |-> heap, n |-> 0], live.bus,
                                    ProgLong, 0, Len(ProgLong), checked)} :
        \E cells \in {{<<LoadAddress(i), ProgLong[i + 1]>> : i \in 0..(r.n - 1)}} :
        \E addrs \in {{LoadAddress(i) : i \in 0..(r.n - 1)}} :
            /\ heap' = r.heap
            /\ fault' = IF r.ok THEN "none" ELSE "panic"
            /\ live' = IF r.ok THEN [live EXCEPT !.dis = Disassemble(ProgLong)]
                       ELSE live
            /\ written' = {w \in written : w[1] \notin addrs} \cup cells
            /\ loads' = loads + 1
            /\ lastOp' = "load"
            /\ ret' = 0
            /\ image' = ProgLong
            /\ sig' = NoSig
            /\ streak' = NoStreak
            /\ undo' = UndoAfterLoad(undo)
            /\ UNCHANGED <<history, run>>

LoadEdge == \E program \in EdgeImages : LoadProgram(program)

\* Bus::tick in a build with overflow checks: at PC = 0xFFFF the opcode is
\* assigned and registers.pc += 1 panics; every other tick is TickProcessor's.
TickProcessorChecked(H, c) ==
    LET cpu == H.cpus[c]
        op == CpuRead(H, c, cpu.pc)
    IN  IF cpu.cycle = 0 /\ op.ok /\ cpu.pc + 1 >= AddrSpace
        THEN [ok |-> FALSE, heap |-> [H EXCEPT !.cpus[c].opcode = op.value],
              fetched |-> FALSE, s1 |-> FALSE, s2 |-> FALSE, wrote |-> {}]
        ELSE TickProcessor(H, c)

\* cpu.tick() in either build.
TickEdge ==
    \E checked \in BOOLEAN :
        TickCall(IF checked THEN TickProcessorChecked(heap, live.cpu)
                 ELSE CpuTick(heap, live.cpu), live.cpu, "tick")

EdgeNext == LoadEdge \/ LoadLong \/ TickEdge \/ Reset

EdgeSpec == Init /\ [][EdgeNext]_vars

(***************************************************************************)
(* Properties.                                                             *)
(***************************************************************************)
LiveCpu == heap.cpus[live.cpu]
LiveByte(addr) == BusRead(heap, live.bus, addr).value

\* C1: N >= 1 consecutive successful steps from a state S followed by N
\* rollbacks leave registers, cycle, opcode, every device byte and the
\* disassembly unit as they were in S, and the history at the depth it had in S.
\* (streak.base and streak.depth are the view and depth recorded at S, streak.n
\* the steps taken since and streak.k the rollbacks that followed.)
C1_StepsThenRollbacksRestore ==
    (lastOp = "rollback" /\ streak.n >= 1 /\ streak.k = streak.n)
        => /\ View(heap, live) = streak.base
           /\ Len(history) = streak.depth

\* Three steps, one of them a store, undone by three rollbacks.
C1_Witness ==
    /\ lastOp = "rollback"
    /\ streak.n = 3
    /\ streak.k = 3
    /\ live.dis = Disassemble(ProgSta)

C3_MutualReferencesAfterRollback ==
    lastOp = "rollback" =>
        /\ LiveCpu.bus = live.bus
        /\ heap.buses[live.bus].processor = live.cpu

\* Everything reachable from a machine state: what it holds by value and the
\* device contents reached through its processor's own bus reference.
DeepView(H, st) ==
    [view |-> View(H, st),
     viaCpu |-> IF H.cpus[st.cpu].bus = NoRef THEN <<>>
                ELSE DeviceContents(H, H.cpus[st.cpu].bus)]

C5_FetchCycleAccounting ==
    [][(lastOp' = "step" /\ fault' = "none" /\ LiveCpu.cycle = 0) =>
          LET opcode == LiveByte(LiveCpu.pc)
              after == heap'.cpus[live'.cpu]
          IN  /\ sig'.fetched
              /\ after.opcode = opcode
              /\ after.cycle = InstructionSet[opcode].cycles - 1
                                  + (IF sig'.s1 /\ sig'.s2 THEN 1 ELSE 0)]_vars

\* LDA $80FF,X with X = 1: both signals true, 4 + 1 - 1 cycles remain.
C5_Witness ==
    /\ lastOp = "step"
    /\ sig.fetched /\ sig.s1 /\ sig.s2
    /\ LiveCpu.opcode = 189
    /\ LiveCpu.cycle = 4

\* C6: a step whose PC is a key of the address map pushes exactly one snapshot,
\* taken before the tick, and ticks exactly once; a step whose PC is not a key
\* changes neither the cells, nor the live machine, nor the history.
C6_StepGating ==
    [][/\ lastOp' = "step_skipped" =>
            /\ ~CountersContain(live.dis, LiveCpu.pc)
            /\ UNCHANGED <<heap, live, history>>
       /\ lastOp' = "step" =>
            /\ CountersContain(live.dis, LiveCpu.pc)
            /\ history' = Append(history, history'[Len(history')])
            /\ View(heap', history'[Len(history')]) = View(heap, live)
            /\ View(heap', live') = View(CpuTick(heap, live.cpu).heap, live)]_vars

\* A step refused after an accepted one: PC has left the address map.
C6_Witness ==
    /\ lastOp = "step_skipped"
    /\ Len(history) >= 1
    /\ live.dis.program # <<>>

\* C7: rollback on an empty history changes nothing; on a non-empty history it
\* removes exactly the most recently pushed snapshot and restores that one.
C7_RollbackEmptyNoOp ==
    [][/\ (lastOp' \in {"rollback", "rollback_empty"} /\ history = <<>>) =>
            /\ lastOp' = "rollback_empty"
            /\ UNCHANGED <<heap, live, history, fault>>
       /\ (lastOp' \in {"rollback", "rollback_empty"} /\ history # <<>>) =>
            /\ lastOp' = "rollback"
            /\ history' = SubSeq(history, 1, Len(history) - 1)
            /\ View(heap', live') = View(heap, history[Len(history)])]_vars

\* A rollback on the empty history of a machine with a program loaded.
C7_Witness ==
    /\ lastOp = "rollback_empty"
    /\ history = <<>>
    /\ live.dis.program # <<>>

LiveDevices == heap.buses[live.bus].devices
Attached(d) == \E i \in 1..Len(LiveDevices) : LiveDevices[i] = d
OtherCells(data, addr) == {c \in data : c[1] # addr}

\* C8: Bus.read(a) returns the byte held at a by the earliest-registered device
\* whose range predicate claims a, and changes no device's content.
C8_ReadFirstMatch ==
    [][(lastOp' = "bus_read" /\ fault' = "none") =>
          /\ heap' = heap
          /\ \E i \in 1..Len(LiveDevices) :
                /\ WithinRange(heap.devs[LiveDevices[i]], ret'[1])
                /\ \A j \in 1..(i - 1) :
                      ~WithinRange(heap.devs[LiveDevices[j]], ret'[1])
                /\ ret'[2] = MemRead(heap.devs[LiveDevices[i]].data, ret'[1])]_vars

\* A read of 0x0200 behind an unclaiming first device, answered by the second
\* device although the third claims the address with another byte.
C8_Witness ==
    /\ lastOp = "bus_read"
    /\ fault = "none"
    /\ ret[1] = 512
    /\ Len(LiveDevices) = 3
    /\ ~WithinRange(heap.devs[LiveDevices[1]], 512)
    /\ WithinRange(heap.devs[LiveDevices[2]], 512)
    /\ WithinRange(heap.devs[LiveDevices[3]], 512)
    /\ ret[2] = MemRead(heap.devs[LiveDevices[2]].data, 512)
    /\ ret[2] # MemRead(heap.devs[LiveDevices[3]].data, 512)

\* C9: Bus.write(a, v) stores v at a in every attached device that claims a and
\* leaves every other device, and every other address of every device, unchanged.
C9_WriteBroadcast ==
    [][lastOp' = "bus_write" =>
          /\ DOMAIN heap'.devs = DOMAIN heap.devs
          /\ heap'.buses = heap.buses
          /\ heap'.cpus = heap.cpus
          /\ \A d \in DOMAIN heap.devs :
                IF Attached(d) /\ WithinRange(heap.devs[d], ret'[1])
                THEN /\ MemRead(heap'.devs[d].data, ret'[1]) = ret'[2]
                     /\ OtherCells(heap'.devs[d].data, ret'[1])
                           = OtherCells(heap.devs[d].data, ret'[1])
                ELSE heap'.devs[d] = heap.devs[d]]_vars

\* A write of 0xAB to 0x0200 held afterwards by two claiming devices while a
\* device that does not claim the address is attached as well.
C9_Witness ==
    /\ lastOp = "bus_write"
    /\ ret = <<512, 171>>
    /\ Len(LiveDevices) = 3
    /\ \E i, j, k \in 1..3 :
          /\ i < j
          /\ WithinRange(heap.devs[LiveDevices[i]], 512)
          /\ WithinRange(heap.devs[LiveDevices[j]], 512)
          /\ MemRead(heap.devs[LiveDevices[i]].data, 512) = 171
          /\ MemRead(heap.devs[LiveDevices[j]].data, 512) = 171
          /\ ~WithinRange(heap.devs[LiveDevices[k]], 512)

\* C10: on the machine's bus (RAM attached), an address written through the
\* bus reads back the byte last written to it, whatever writes to other
\* addresses and whatever reads came in between.
C10_ReadAfterWrite ==
    \A c \in written :
        BusRead(heap, live.bus, c[1]) = [ok |-> TRUE, value |-> c[2]]

\* 0xAB written to 0x0200, then other addresses written, then 0x0200 read.
C10_Witness ==
    /\ lastOp = "read"
    /\ ret = 171
    /\ <<512, 171>> \in written
    /\ <<0, 5>> \in written
    /\ <<65535, 171>> \in written

AfterReset == Registers(CpuReset(heap, live.cpu).heap.cpus[live.cpu])

C13_HandleRemovesDevice ==
    [][(/\ lastOp = "add_device"
        /\ lastOp' = "remove_device"
        /\ heap' = Collect(BusRemoveDevice(heap, live.bus, ret),
                           Roots(live, history))) =>
          heap'.buses[live.bus].devices
              = SubSeq(LiveDevices, 1, Len(LiveDevices) - 1)]_vars

\* C14: after initialization PC = read(0xFFFC) + 256 * read(0xFFFD) = 0x8000,
\* the load origin, and cycles_remaining = 0; the first tick of the machine so
\* initialized fetches the byte at the load origin.
C14_ResetVectorInit ==
    [][/\ lastOp = "init" =>
            /\ LiveCpu.pc = LiveByte(ResetVector) + 256 * LiveByte(ResetVector + 1)
            /\ LiveCpu.pc = LoadOrigin
            /\ LiveCpu.pc = 32768
            /\ LiveCpu.cycle = 0
       /\ (/\ lastOp' = "step"
           /\ history = <<>>
           /\ Registers(LiveCpu) = Registers(InitiateState.heap.cpus[0])) =>
            /\ sig'.fetched
            /\ heap'.cpus[live'.cpu].opcode = LiveByte(LoadOrigin)]_vars

\* The first tick after initialization has fetched the LDX at the origin.
C14_Witness ==
    /\ lastOp = "step"
    /\ Len(history) = 1
    /\ View(heap, history[1]).cpu = Registers(InitiateState.heap.cpus[0])
    /\ sig.fetched
    /\ LiveCpu.opcode = 162
    /\ LiveByte(LoadOrigin) = 162

\* C15: a bus read of an address that no attached device claims (a bus without
\* devices included) ends in a panic and returns no byte, so a read that
\* returns was claimed; a bus write to such an address changes no device and
\* returns normally.
C15_UnclaimedAccess ==
    [][/\ (lastOp' = "bus_read" /\ Claiming(heap, live.bus, ret'[1]) = <<>>) =>
            /\ fault' = "panic"
            /\ heap' = heap
       /\ (lastOp' = "bus_read" /\ fault' = "none") =>
            Claiming(heap, live.bus, ret'[1]) # <<>>
       /\ (lastOp' = "bus_write" /\ Claiming(heap, live.bus, ret'[1]) = <<>>) =>
            /\ fault' = "none"
            /\ heap' = heap]_vars

\* A read of 0x0200 that panicked on a bus whose devices all end at 0x01FF, one
\* of them holding a byte written before.
C15_Witness ==
    /\ lastOp = "bus_read"
    /\ fault = "panic"
    /\ ret[1] = 512
    /\ Len(LiveDevices) >= 1
    /\ \A i \in 1..Len(LiveDevices) : ~WithinRange(heap.devs[LiveDevices[i]], 512)
    /\ \E i \in 1..Len(LiveDevices) : heap.devs[LiveDevices[i]].data # {}

\* C17: cycles_remaining is non-negative in every reachable state, for the
\* live processor and for the processor of every snapshot, and every catalog
\* descriptor has a positive base cycle count.
C17_CycleNonNegative ==
    /\ \A c \in DOMAIN heap.cpus : heap.cpus[c].cycle >= 0
    /\ \A op \in DOMAIN InstructionSet : InstructionSet[op].cycles >= 1

\* A snapshot taken in mid-instruction while the live processor has drained to
\* 0 after a reset, direct ticks and a step.
C17_Witness ==
    /\ lastOp = "tick"
    /\ ~sig.fetched
    /\ LiveCpu.cycle = 0
    /\ LiveCpu.opcode = 189
    /\ Len(history) = 1
    /\ heap.cpus[history[1].cpu].cycle = 4

\* The processor a tick call acts on: the live one (the bus refers to no other).
TickedRegs(H) == Registers(H.cpus[live.cpu])

\* C16: a tick invoked with cycles_remaining > 0 decrements cycles_remaining
\* by exactly 1 and leaves PC, A, X, Y, SP, the flags, the opcode in flight and
\* every device byte unchanged; so a tick that changes any of these is a
\* fetching tick, invoked with cycles_remaining = 0.
C16_DrainNoSideEffects ==
    [][/\ (lastOp' \in TickOps /\ fault' = "none" /\ LiveCpu.cycle > 0) =>
            /\ ~sig'.fetched
            /\ TickedRegs(heap') = [TickedRegs(heap) EXCEPT !.cycle = @ - 1]
            /\ heap'.devs = heap.devs
            /\ heap'.buses = heap.buses
       /\ (/\ lastOp' \in TickOps
           /\ fault' = "none"
           /\ \/ [TickedRegs(heap') EXCEPT !.cycle = 0]
                    # [TickedRegs(heap) EXCEPT !.cycle = 0]
              \/ heap'.devs # heap.devs) =>
            /\ sig'.fetched
            /\ LiveCpu.cycle = 0]_vars

\* The last of the three draining ticks that follow the fetch of STA $0200:
\* the byte stored by the fetching tick is in memory, PC is past the operand.
C16_Witness ==
    /\ lastOp \in TickOps
    /\ ~sig.fetched
    /\ LiveCpu.opcode = 141
    /\ LiveCpu.cycle = 0
    /\ LiveCpu.pc = LoadOrigin + 5
    /\ LiveByte(512) = 171
    /\ run.n = 4

\* C18: under repeated ticking the processor fetches again and again unless
\* a tick has panicked (memory held a byte without catalog entry), and the
\* number of tick calls from a fetching tick up to, not including, the next
\* fetching tick is the fetched instruction's base cycle count plus its extra
\* cycle.
C18_FetchCadence ==
    /\ []<>(fault = "panic" \/ (lastOp \in TickOps /\ sig.fetched))
    /\ []<>(fault = "panic" \/ LiveCpu.cycle = 0)
    /\ [][(lastOp' \in TickOps /\ sig'.fetched /\ run.n > 0) =>
              /\ run.n = run.budget
              /\ run'.prev = run.budget]_vars

\* The JMP fetched right after the five tick calls of LDA $80FF,X (base 4, one
\* extra cycle).
C18_Witness ==
    /\ lastOp \in TickOps
    /\ sig.fetched
    /\ LiveCpu.opcode = 76
    /\ run.prev = 5
    /\ run.n = 1
    /\ run.budget = 3

\* C20: a tick that panics (no processor attached to the bus it is called on,
\* or no catalog entry for the byte at PC) leaves PC, the opcode in flight,
\* cycles_remaining, the other registers and every device byte as they were
\* before the call.
C20_FailedTickChangesNothing ==
    [][(lastOp' \in TickOps /\ fault' = "panic") =>
          /\ TickedRegs(heap') = TickedRegs(heap)
          /\ heap'.devs = heap.devs]_vars

\* C19: after a load of P2 the addresses past P2's last byte at which a longer
\* program P1 may have been loaded before hold the memory's initial value 0,
\* and the active disassembly unit describes P2 only.
C19_LoadResetsBus ==
    lastOp = "load" =>
        /\ live.dis = Disassemble(image)
        /\ \A p \in Programs :
              \A i \in Len(image)..(Len(p) - 1) : LiveByte(LoadOrigin + i) = 0

\* A tick that starts an instruction at the last address, which holds an
\* instruction of the catalog.
FetchAtTop ==
    /\ fault = "none"
    /\ lastOp' = "tick"
    /\ LiveCpu.cycle = 0
    /\ LiveCpu.pc = AddrSpace - 1
    /\ LiveByte(AddrSpace - 1) \in DOMAIN InstructionSet

\* Such a tick returns, with the opcode of 0xFFFF in flight and PC past the
\* operand bytes counted from 0x0000.
FetchWraps ==
    FetchAtTop =>
        /\ fault' = "none"
        /\ LiveCpu'.opcode = LiveByte(AddrSpace - 1)
        /\ LiveCpu'.pc = OperandWidth(InstructionSet[LiveByte(AddrSpace - 1)].mode)

\* A load returns with byte i of the file at (origin + i) mod 2^16.
LoadWraps ==
    lastOp' = "load" =>
        /\ fault' = "none"
        /\ \A i \in 0..(Len(image') - 1) :
              BusRead(heap', live'.bus, LoadAddress(i)).value = image'[i + 1]

\* C21: the program counter and the load address wrap modulo 2^16.  A
\* fetching tick at PC = 0xFFFF does not fail: it takes its opcode from 0xFFFF
\* and leaves PC at 0x0000 before the operand bytes are fetched.  A load does
\* not fail either and puts byte i of the file at (origin + i) mod 2^16, for
\* every index i of the file.
C21_WrapAround == [][FetchWraps /\ LoadWraps]_vars

\* C22: a load leaves the history alone, so a rollback goes back across it.
\* When one or more loads follow an accepted step and a rollback comes next,
\* the rollback restores what the snapshot of that step captured: the
\* registers, the memory contents and the disassembly unit the live machine
\* had when the snapshot was pushed.  The bytes the loads wrote and their
\* disassembly unit are gone, and the history is as deep as the steps and
\* rollbacks alone made it.
C22_RollbackCrossesLoad ==
    (lastOp = "rollback" /\ undo.crossed >= 1) =>
        /\ View(heap, live) = undo.view
        /\ Len(history) = Len(undo.views)

\* A rollback across a load that had changed memory and the disassembly unit,
\* after a step that had changed the registers.
C22_Witness ==
    /\ lastOp = "rollback"
    /\ undo.crossed >= 1
    /\ undo.before.dis # live.dis
    /\ undo.before.devices # DeviceContents(heap, live.bus)
    /\ undo.before.cpu # Registers(LiveCpu)
====
